---- MODULE Spec2Model ----
(***************************************************************************)
(* The conversational query pipeline of src/app/main.py (process_query and *)
(* its helpers) as a state machine.  Texts are sequences of one-character  *)
(* strings so that strip, upper, substring search, prefix tests and the    *)
(* fenced-block regular expression are computed as Python computes them.   *)
(***************************************************************************)
EXTENDS Integers, Sequences, FiniteSets, TLC

(* ----------------------------- bounds ---------------------------------- *)
\* Number of POST /query requests a behaviour receives.  The host serves
\* requests concurrently; the model lets a request overlap with its
\* predecessor and its successor.
MaxRequests == 2

Reqs == 1..MaxRequests

(* ------------------------- Python str helpers -------------------------- *)
Whitespace == {" ", "\n"}

LowerLetters == <<"a","b","c","d","e","f","g","h","i","j","k","l","m","n","o","p","q","r","s","t","u","v","w","x","y","z">>
UpperLetters == <<"A","B","C","D","E","F","G","H","I","J","K","L","M","N","O","P","Q","R","S","T","U","V","W","X","Y","Z">>

UpperChar(c) ==
  IF \E i \in 1..Len(LowerLetters) : LowerLetters[i] = c
    THEN UpperLetters[CHOOSE i \in 1..Len(LowerLetters) : LowerLetters[i] = c]
    ELSE c

\* str.upper()
StrUpper(s) == [i \in 1..Len(s) |-> UpperChar(s[i])]

\* s[a:] with a 0-based, as Python slices
SliceFrom(s, a) == IF a >= Len(s) THEN <<>> ELSE SubSeq(s, a + 1, Len(s))

\* str.lstrip() / str.rstrip() / str.strip() with no argument
LStrip(s) ==
  IF \A i \in 1..Len(s) : s[i] \in Whitespace THEN <<>>
  ELSE SubSeq(s, CHOOSE i \in 1..Len(s) :
                     /\ s[i] \notin Whitespace
                     /\ \A j \in 1..(i-1) : s[j] \in Whitespace, Len(s))

RStrip(s) ==
  IF \A i \in 1..Len(s) : s[i] \in Whitespace THEN <<>>
  ELSE SubSeq(s, 1, CHOOSE i \in 1..Len(s) :
                     /\ s[i] \notin Whitespace
                     /\ \A j \in (i+1)..Len(s) : s[j] \in Whitespace)

Strip(s) == LStrip(RStrip(s))

\* str.rstrip(chars): every trailing character that is in chars is removed
RStripChars(s, chars) ==
  IF \A i \in 1..Len(s) : s[i] \in chars THEN <<>>
  ELSE SubSeq(s, 1, CHOOSE i \in 1..Len(s) :
                     /\ s[i] \notin chars
                     /\ \A j \in (i+1)..Len(s) : s[j] \in chars)

\* s[p:].startswith(x) for a 1-based position p
MatchAt(s, p, x) ==
  /\ p >= 1
  /\ p + Len(x) - 1 <= Len(s)
  /\ \A k \in 1..Len(x) : s[p + k - 1] = x[k]

StartsWith(s, x) == MatchAt(s, 1, x)

\* x in s
Contains(s, x) == \E p \in 1..(Len(s) + 1) : MatchAt(s, p, x)

(* --------------------------- text constants ---------------------------- *)
GEMINI_API_ERROR == <<"G", "E", "M", "I", "N", "I", "_", "A", "P", "I", "_", "E", "R", "R", "O", "R">>
GEMINI_SAFETY_ERROR == <<"G", "E", "M", "I", "N", "I", "_", "S", "A", "F", "E", "T", "Y", "_", "E", "R", "R", "O", "R">>
\* The text call_gemini returns when response.text raises ValueError.
SafetyErrorText == <<"G", "E", "M", "I", "N", "I", "_", "S", "A", "F", "E", "T", "Y", "_", "E", "R", "R", "O", "R", ":", " ", "T", "h", "e", " ", "r", "e", "s", "p", "o", "n", "s", "e", " ", "w", "a", "s", " ", "b", "l", "o", "c", "k", "e", "d", " ", "b", "y", " ", "t", "h", "e", " ", "s", "a", "f", "e", "t", "y", " ", "f", "i", "l", "t", "e", "r", ".", " ", "T", "h", "i", "s", " ", "c", "a", "n", " ", "s", "o", "m", "e", "t", "i", "m", "e", "s", " ", "h", "a", "p", "p", "e", "n", " ", "w", "i", "t", "h", " ", "c", "o", "m", "p", "l", "e", "x", " ", "S", "Q", "L", " ", "p", "r", "o", "m", "p", "t", "s", ".", " ", "P", "l", "e", "a", "s", "e", " ", "t", "r", "y", " ", "r", "e", "p", "h", "r", "a", "s", "i", "n", "g", " ", "y", "o", "u", "r", " ", "q", "u", "e", "s", "t", "i", "o", "n", ".">>
NO == <<"N", "O">>
CLARIFY == <<"C", "L", "A", "R", "I", "F", "Y", ":">>
\* One character of a text is a one-character string; the backquote, which
\* the TLA+ lexer does not accept inside a string, is written "BQ".
Backquote == "BQ"
Fence == <<Backquote, Backquote, Backquote>>
FenceLang == <<"s", "q", "l">>

(* ------------------------------ values --------------------------------- *)
\* Turn.content is Union[str, Dict[str, Any]]: a text or a dict.
Str(t) == [str |-> t]
Dict(d) == [dict |-> d]
\* Mutant: every content passes for a text.
IsStrAlways(content) == TRUE

\* isinstance(content, str)
IsStr(content) == "str" \in DOMAIN content

Turn(role, content) == [role |-> role, content |-> content]

\* Column values asyncpg hands back: int, Decimal (numeric), date.
IntVal(n) == [int |-> n]
DecimalVal(n) == [Decimal |-> n]
FloatVal(n) == [float |-> n]
DateVal(n) == [date |-> n]

\* json.dumps(..., default=json_default_encoder) raises TypeError on any
\* object that is neither JSON-native nor a Decimal.
json_default_encoder_raises(v) == "date" \in DOMAIN v

json_default_encoder(v) == IF "Decimal" \in DOMAIN v THEN FloatVal(v.Decimal) ELSE v

RowSerializable(row) == \A c \in DOMAIN row : ~json_default_encoder_raises(row[c])
RowsSerializable(rows) == \A i \in 1..Len(rows) : RowSerializable(rows[i])

\* json.loads(json.dumps(rows, default=json_default_encoder))
RowsRoundTrip(rows) ==
  [i \in 1..Len(rows) |-> [c \in DOMAIN rows[i] |-> json_default_encoder(rows[i][c])]]

(* --------------------------- request inputs ---------------------------- *)
Q1 == <<"q", "1", "?">>
Q2 == <<"q", "2", "?">>
ClarifyingQuestion == <<"x", "?">>

H_single == << Turn("user", Str(Q1)) >>
H_followup == << Turn("user", Str(Q1)),
                 Turn("assistant", Dict([clarification |-> ClarifyingQuestion])),
                 Turn("user", Str(Q2)) >>
H_dict_last == << Turn("user", Dict([clarification |-> ClarifyingQuestion])) >>
H_assistant_last == << Turn("assistant", Str(ClarifyingQuestion)) >>
H_empty == << >>

Histories == {H_single, H_followup, H_dict_last, H_assistant_last, H_empty}

(* ---------------------------- Oracle texts ----------------------------- *)
\* The texts the model returns when a call succeeds.  None of them holds one
\* of the two error markers: those reach process_query only through the
\* except branches of call_gemini.
\* str(e) of the exceptions generate_content_async raises.
ApiExceptionTexts == { <<"4", "0", "4", " ", "n", "o", "t", " ", "f", "o", "u", "n", "d">> }

\* response.text of the relevance call.
RelYes == <<"Y", "E", "S">>
RelNoLower == <<" ", "n", "o", "\n">>
RelUnknown == <<"U", "n", "k", "n", "o", "w", "n">>
RelevanceTexts == { RelYes, RelNoLower, RelUnknown }

\* response.text of the synthesis call.
SynClarify == <<"C", "L", "A", "R", "I", "F", "Y", ":", " ", "x", "?">>
SynClarifyLower == <<" ", "c", "l", "a", "r", "i", "f", "y", ":", " ", "x", "?">>
SynSelect == <<"S", "E", "L", "E", "C", "T", " ", "1", ";">>
SynFenced == <<Backquote, Backquote, Backquote, "s", "q", "l", "\n", "S", "E", "L", "E", "C", "T", " ", "1", ";", ";", "\n", Backquote, Backquote, Backquote>>
SynSelectNewline == <<"S", "E", "L", "E", "C", "T", " ", "1", ";", "\n">>
SynthesisTexts == { SynClarify, SynClarifyLower, SynSelect, SynFenced, SynSelectNewline }

\* response.text of the repair, no-results and summary calls.
SentenceTexts == { <<"o", "k", ".">> }

\* response.text of the visualization call.
VizBarText == <<"{", "\"", "c", "h", "a", "r", "t", "_", "n", "e", "e", "d", "e", "d", "\"", ":", " ", "t", "r", "u", "e", ",", " ", "\"", "c", "h", "a", "r", "t", "_", "t", "y", "p", "e", "\"", ":", " ", "\"", "b", "a", "r", "\"", "}", "\n">>
VizListText == <<"[", "]">>
VizProseText == <<"n", "/", "a">>
VizTexts == { VizBarText, VizListText, VizProseText }

\* Outcomes of conn.prepare / stmt.fetch.
RowsInt == << [count |-> IntVal(42)] >>
RowsDecimal == << [total |-> DecimalVal(15)] >>
RowsDate == << [hired |-> DateVal(1)] >>
FetchResults == { << >>, RowsInt, RowsDecimal, RowsDate }
\* What the query of RowsInt returns once a row has been added to the table.
RowsIntLater == << [count |-> IntVal(43)] >>
\* str(e) of the asyncpg.PostgresError the database raises.
PostgresErrorTexts == { <<"b", "a", "d", " ", "c", "o", "l", "u", "m", "n">> }

\* call_gemini: what the generate_content_async call did (a text, or one of
\* the two exceptions call_gemini handles) ...
OracleResults(exceptions, texts) ==
  [ok : {TRUE}, text : texts]
    \cup [ok : {FALSE}, exc : exceptions \cap {"ValueError"}, text : {<< >>}]
    \cup [ok : {FALSE}, exc : exceptions \cap {"Exception"}, text : ApiExceptionTexts]

GeminiExceptions == {"ValueError", "Exception"}

\* The inputs and environment answers a run draws from.  Wide: one request,
\* every kind of input and answer.  Concurrent: overlapping requests, the
\* inputs and answers that decide which path a request takes.
Wide ==
  [ histories |-> Histories,
    relevance |-> OracleResults(GeminiExceptions, RelevanceTexts),
    synthesis |-> OracleResults(GeminiExceptions, SynthesisTexts),
    sentences |-> OracleResults(GeminiExceptions, SentenceTexts),
    viz |-> OracleResults(GeminiExceptions, VizTexts),
    acquire |-> BOOLEAN, fetch |-> FetchResults ]

Concurrent ==
  [ histories |-> {H_single, H_followup},
    relevance |-> OracleResults({"Exception"}, {RelYes, RelNoLower}),
    synthesis |-> OracleResults({"Exception"}, {SynClarify, SynClarifyLower, SynSelect}),
    sentences |-> OracleResults({}, SentenceTexts),
    viz |-> OracleResults({}, {VizBarText}),
    acquire |-> {TRUE}, fetch |-> { << >>, RowsDecimal } ]

\* Race: requests for one conversation that pass the relevance gate and get
\* a query, against a database whose content changes.
Race ==
  [ histories |-> {H_single},
    relevance |-> OracleResults({}, {RelYes}),
    synthesis |-> OracleResults({}, {SynSelect}),
    sentences |-> OracleResults({}, SentenceTexts),
    viz |-> OracleResults({}, {VizBarText}),
    acquire |-> {TRUE}, fetch |-> { << >>, RowsInt, RowsIntLater } ]

(* ------------------------------- state --------------------------------- *)
VARIABLES
  DB_SCHEMA_HASH,  \* main.py:26, set once by lifespan
  llm_cache,       \* table llm_cache: key -> response (a function on the keys present)
  query_log,       \* table query_log: the rows in insertion (id) order
  req,             \* per request: its position in process_query and its locals
  probe            \* the arguments and results of a pure function applied on its own

vars == <<DB_SCHEMA_HASH, llm_cache, query_log, req, probe>>

\* probe while the pipeline runs: no pure function is being applied on its own.
NoProbe == [pc |-> "unused"]

NoBody == [pending |-> TRUE]

NewRequest ==
  [ pc |-> "idle", history |-> << >>, sql_query |-> << >>, results |-> << >>,
    error_message |-> << >>, explanation |-> << >>, chart_spec |-> [chart_needed |-> FALSE],
    leased |-> 0, status |-> 0, body |-> NoBody, trace |-> << >>, after |-> {} ]

\* One entry of a request's own record of the calls it made (instrumentation,
\* written by no line of the program): the call, whether it succeeded, the
\* text it returned, the number of rows fetched, the exception raised.
Ev(kind, ok) == [ev |-> kind, ok |-> ok, text |-> << >>, n |-> 0, exc |-> ""]
OracleEv(stage, o, text) ==
  [ev |-> stage, ok |-> o.ok, text |-> text, n |-> 0, exc |-> IF o.ok THEN "" ELSE o.exc]
ExecEv(x) ==
  [ev |-> "db_execute", ok |-> (x.kind = "rows"), text |-> x.error, n |-> Len(x.rows),
   exc |-> IF x.kind = "rows" THEN "" ELSE x.kind]

(* ------------------------------ helpers -------------------------------- *)
\* request.history[-1].content
last_question(r) == req[r].history[Len(req[r].history)].content.str

\* The characters of the role names and dict keys the histories use.
Chars(name) ==
  CASE name = "user" -> <<"u", "s", "e", "r">>
    [] name = "assistant" -> <<"a", "s", "s", "i", "s", "t", "a", "n", "t">>
    [] name = "role" -> <<"r", "o", "l", "e">>
    [] name = "content" -> <<"c", "o", "n", "t", "e", "n", "t">>
    [] name = "clarification" -> <<"c", "l", "a", "r", "i", "f", "i", "c", "a", "t", "i", "o", "n">>
    [] name = "count" -> <<"c", "o", "u", "n", "t">>
    [] name = "total" -> <<"t", "o", "t", "a", "l">>

\* json.dumps of one character of a str: quote, backslash and newline are escaped.
JsonEscape(c) ==
  IF c = "\"" THEN <<"\\", "\"">>
  ELSE IF c = "\\" THEN <<"\\", "\\">>
  ELSE IF c = "\n" THEN <<"\\", "n">>
  ELSE <<c>>

RECURSIVE JsonEscapeAll(_)
JsonEscapeAll(s) == IF s = << >> THEN << >> ELSE JsonEscape(Head(s)) \o JsonEscapeAll(Tail(s))

\* Mutant: a str is written between quotes as it is, nothing escaped.
json_dumps_str_unescaped(s) == <<"\"">> \o s \o <<"\"">>

\* json.dumps(s) for a str s
json_dumps_str(s) == <<"\"">> \o JsonEscapeAll(s) \o <<"\"">>

\* ", ".join(items)
RECURSIVE JoinComma(_)
JoinComma(items) ==
  IF items = << >> THEN << >>
  ELSE IF Len(items) = 1 THEN items[1]
  ELSE items[1] \o <<",", " ">> \o JoinComma(Tail(items))

\* The keys of a dict in insertion order (dicts of the histories: one key, or
\* role before content as pydantic declares them, lines 90-91).
DictKeys(d) == SelectSeq(<<"role", "content", "clarification">>, LAMBDA k : k \in DOMAIN d)

\* json.dumps(d) for a dict d whose values are texts
json_dumps_dict(d) ==
  <<"{">> \o JoinComma([i \in 1..Len(DictKeys(d)) |->
                          json_dumps_str(Chars(DictKeys(d)[i])) \o <<":", " ">>
                            \o json_dumps_str(d[DictKeys(d)[i]])])
         \o <<"}">>

json_dumps_content(content) ==
  IF IsStr(content) THEN json_dumps_str(content.str) ELSE json_dumps_dict(content.dict)

\* json.dumps(turn.dict()): {"role": ..., "content": ...}
json_dumps_turn(turn) ==
  <<"{">> \o json_dumps_str(Chars("role")) \o <<":", " ">> \o json_dumps_str(Chars(turn.role))
         \o <<",", " ">> \o json_dumps_str(Chars("content")) \o <<":", " ">>
         \o json_dumps_content(turn.content) \o <<"}">>

\* json.dumps([turn.dict() for turn in request.history], default=...), line 226
history_str(history) ==
  <<"[">> \o JoinComma([i \in 1..Len(history) |-> json_dumps_turn(history[i])]) \o <<"]">>

\* hashlib.sha256(text.encode()).hexdigest(): taken as collision-free, so the
\* digest is kept as the text it was computed from.
sha256_hexdigest(text) == [sha256 |-> text]

\* DB_SCHEMA_HASH as lifespan computes it (line 70): a hex digest, shortened
\* here to four digits; one for each of two schemas.
SchemaHash1 == <<"9", "f", "0", "c">>
SchemaHash2 == <<"0", "c", "9", "f">>
SchemaHashes == {SchemaHash1, SchemaHash2}

\* Mutant: the key is computed from the opening turn of the conversation only.
cache_key_of_first_turn(history, schema_hash) ==
  sha256_hexdigest(history_str(IF history = << >> THEN << >> ELSE <<history[1]>>) \o schema_hash)

\* hashlib.sha256((history_str + DB_SCHEMA_HASH).encode()).hexdigest(), line 227
cache_key(history, schema_hash) == sha256_hexdigest(history_str(history) \o schema_hash)

\* Mutant: the key also depends on the request (a nonce, a timestamp).
cache_key_hash_per_request(r) == <<cache_key(req[r].history, DB_SCHEMA_HASH), r>>

\* cache_key_hash of request r, lines 226-227
cache_key_hash(r) == cache_key(req[r].history, DB_SCHEMA_HASH)

\* call_gemini: the str it returns for what the call did (lines 196, 200, 203).
call_gemini(o) ==
  IF o.ok THEN o.text
  ELSE IF o.exc = "ValueError" THEN SafetyErrorText
  ELSE GEMINI_API_ERROR \o <<":", " ">> \o o.text

\* Mutant: only the API-error marker is looked for.
IsGeminiErrorApiOnly(t) == Contains(t, GEMINI_API_ERROR)

\* "GEMINI_API_ERROR" in t or "GEMINI_SAFETY_ERROR" in t  (lines 219, 236)
IsGeminiError(t) == Contains(t, GEMINI_API_ERROR) \/ Contains(t, GEMINI_SAFETY_ERROR)

\* Mutant: the answer is not upper-cased before the search.
IsOffTopicCaseSensitive(relevance_response) == Contains(Strip(relevance_response), NO)

\* 'NO' in relevance_response.strip().upper()  (line 221)
IsOffTopic(relevance_response) == Contains(StrUpper(Strip(relevance_response)), NO)

\* Mutant: the sentinel is looked for in the raw text.
IsClarifyRawText(response_text) == StartsWith(response_text, CLARIFY)

\* response_text.strip().upper().startswith("CLARIFY:")  (line 239)
IsClarify(response_text) == StartsWith(StrUpper(Strip(response_text)), CLARIFY)

\* response_text[len("CLARIFY:"):].strip()  (line 241)
ClarificationOf(response_text) == Strip(SliceFrom(response_text, Len(CLARIFY)))

\* re.search(r"```(?:sql)?\s*(.*?)\s*```", response_text, re.DOTALL), line 243.
\* Where group 1 starts for a match whose opening fence is at i: after the
\* fence, the optional "sql" and the greedy whitespace run.
FenceContentStart(t, i) ==
  LET p == IF MatchAt(t, i + Len(Fence), FenceLang)
             THEN i + Len(Fence) + Len(FenceLang) ELSE i + Len(Fence)
  IN CHOOSE a \in p..(Len(t) + 1) :
       /\ \A k \in p..(a - 1) : t[k] \in Whitespace
       /\ a = Len(t) + 1 \/ t[a] \notin Whitespace

\* Whether \s*``` matches at position e.
FenceClosesAt(t, e) ==
  \E j \in e..Len(t) : MatchAt(t, j, Fence) /\ \A k \in e..(j - 1) : t[k] \in Whitespace

FenceMatchesAt(t, i) ==
  /\ MatchAt(t, i, Fence)
  /\ \E e \in FenceContentStart(t, i)..Len(t) : FenceClosesAt(t, e)

HasFence(t) == \E i \in 1..Len(t) : FenceMatchesAt(t, i)

\* sql_match.group(1): leftmost opening fence, lazy content.
FenceGroup1(t) ==
  LET i == CHOOSE i \in 1..Len(t) :
             FenceMatchesAt(t, i) /\ \A j \in 1..(i - 1) : ~FenceMatchesAt(t, j)
      a == FenceContentStart(t, i)
      e == CHOOSE e \in a..Len(t) :
             FenceClosesAt(t, e) /\ \A d \in a..(e - 1) : ~FenceClosesAt(t, d)
  IN SubSeq(t, a, e - 1)

\* (sql_match.group(1).strip() if sql_match else response_text).rstrip(';'), line 244
ExtractSql(response_text) ==
  RStripChars(IF HasFence(response_text) THEN Strip(FenceGroup1(response_text))
                                         ELSE response_text, {";"})

\* json.loads(text), line 276, on the texts the visualization call can return:
\* the JSON documents among them and the Python value of each; every other
\* text (prose, an error text of call_gemini) raises JSONDecodeError.
JsonDocuments ==
  { <<Strip(VizBarText), [chart_needed |-> TRUE, chart_type |-> "bar"]>>,
    <<Strip(VizListText), << >> >> }

json_loads_raises(t) == \A d \in JsonDocuments : d[1] # t
json_loads(t) == (CHOOSE d \in JsonDocuments : d[1] = t)[2]

\* lines 275-278
ChartSpecOf(viz_response) ==
  IF json_loads_raises(Strip(viz_response)) THEN [chart_needed |-> FALSE]
  ELSE json_loads(Strip(viz_response))

\* json.dumps(response, default=json_default_encoder) raises TypeError (line 115)
json_dumps_raises(response) == ~RowsSerializable(response.result)

\* json.loads(json.dumps(response, default=json_default_encoder)): what
\* get_from_cache later returns for a response set_to_cache stored.
StoredForm(response) == [response EXCEPT !.result = RowsRoundTrip(@)]

\* Mutant: INSERT OR IGNORE, the first value stored under a key stays.
set_to_cache_if_absent(key, response) ==
  [k \in DOMAIN llm_cache \cup {key} |->
     IF k \in DOMAIN llm_cache THEN llm_cache[k] ELSE StoredForm(response)]

\* INSERT OR REPLACE INTO llm_cache (key, response), line 115
set_to_cache(key, response) ==
  [k \in DOMAIN llm_cache \cup {key} |->
     IF k = key THEN StoredForm(response) ELSE llm_cache[k]]

\* The request is over: its locals are gone; its response, its record of
\* calls and the connections it still holds remain.
Finished(rec, status_code, body) ==
  [NewRequest EXCEPT !.pc = "done", !.history = rec.history, !.trace = rec.trace,
                     !.after = rec.after, !.leased = rec.leased,
                     !.status = status_code, !.body = body]

raise_HTTPException(rec, status_code, detail) == Finished(rec, status_code, [detail |-> detail])

\* An exception no handler of process_query catches: the framework answers 500.
raise_unhandled(rec) == Finished(rec, 500, [detail |-> "Internal Server Error"])

return(rec, body) == Finished(rec, 200, body)

Record(rec, e) == [rec EXCEPT !.trace = Append(@, e)]

(* ------------------------------ actions -------------------------------- *)
Init ==
  /\ DB_SCHEMA_HASH = SchemaHash1
  /\ llm_cache = << >>
  /\ query_log = << >>
  /\ req = [r \in Reqs |-> NewRequest]
  /\ probe = NoProbe

\* Mutant: the cache is consulted before the relevance call.
FirstStageCacheLookup == "cache_get"

\* Stage process_query awaits first once the question is accepted (217-218).
FirstStage == "relevance"

\* POST /query arrives: lines 211-217, up to the first await.
Receive(r, I) ==
  /\ req[r].pc = "idle"
  /\ \A q \in Reqs : q < r => req[q].pc # "idle"            \* requests are numbered as they arrive
  /\ \A q \in Reqs : q + 1 < r => req[q].pc = "done"        \* at most two overlap
  /\ \E h \in I.histories :
       \* after: the requests already answered when this one arrives (instrumentation)
       LET rec == [req[r] EXCEPT !.history = h,
                                 !.after = {q \in Reqs : req[q].pc = "done"}] IN
       req' = [req EXCEPT ![r] =
                 IF Len(h) = 0 THEN raise_unhandled(rec)          \* IndexError, line 213
                 ELSE IF ~IsStr(h[Len(h)].content)
                   THEN raise_HTTPException(rec, 400, "Invalid question format.")
                 ELSE [rec EXCEPT !.pc = FirstStage]]
  /\ UNCHANGED <<DB_SCHEMA_HASH, llm_cache, query_log, probe>>

\* call_gemini(relevance_prompt) returns: lines 218-227.
RelevanceReturn(r, I) ==
  /\ req[r].pc = "relevance"
  /\ \E o \in I.relevance :
       LET relevance_response == call_gemini(o)
           rec == Record(req[r], OracleEv("relevance", o, relevance_response)) IN
       req' = [req EXCEPT ![r] =
                 IF IsGeminiError(relevance_response)
                   THEN raise_HTTPException(rec, 503, relevance_response)
                 ELSE IF IsOffTopic(relevance_response)
                   THEN return(rec, [off_topic |-> "That question does not seem to be about the database."])
                 ELSE [rec EXCEPT !.pc = "cache_get"]]
  /\ UNCHANGED <<DB_SCHEMA_HASH, llm_cache, query_log, probe>>

\* get_from_cache (lines 108-111): the stored response, json.loads'ed
get_from_cache(key) == llm_cache[key]

\* Mutant: the result of the lookup is ignored.
IsCacheHitNever(key) == FALSE

\* if cached_response := await get_from_cache(cache_key_hash), line 228: a row
\* exists and the dict it holds is truthy (not empty)
IsCacheHit(key) == key \in DOMAIN llm_cache /\ DOMAIN get_from_cache(key) # {}

\* get_from_cache(cache_key_hash) returns: lines 228-234.
CacheGet(r) ==
  /\ req[r].pc = "cache_get"
  /\ LET key == cache_key_hash(r)
         rec == Record(req[r], Ev("cache_get", key \in DOMAIN llm_cache)) IN
     req' = [req EXCEPT ![r] =
               IF IsCacheHit(key)
                 THEN return(rec, get_from_cache(key))
                 ELSE [rec EXCEPT !.pc = "synthesis"]]
  /\ UNCHANGED <<DB_SCHEMA_HASH, llm_cache, query_log, probe>>

\* Mutant: a clarification is stored in the cache before it is returned.
SynthesisReturnCachingClarification(r, I) ==
  /\ req[r].pc = "synthesis"
  /\ \E o \in I.synthesis :
       LET response_text == call_gemini(o)
           rec == Record(req[r], OracleEv("synthesis", o, response_text))
           body == [clarification |-> ClarificationOf(response_text)]
           key == cache_key_hash(r) IN
       /\ req' = [req EXCEPT ![r] =
                 IF IsGeminiError(response_text)
                   THEN raise_HTTPException(rec, 503, response_text)
                 ELSE IF IsClarify(response_text) THEN return(rec, body)
                 ELSE [rec EXCEPT !.pc = "acquire", !.sql_query = ExtractSql(response_text)]]
       /\ llm_cache' =
            IF ~IsGeminiError(response_text) /\ IsClarify(response_text)
              THEN [k \in DOMAIN llm_cache \cup {key} |-> IF k = key THEN body ELSE llm_cache[k]]
              ELSE llm_cache
  /\ UNCHANGED <<DB_SCHEMA_HASH, query_log, probe>>

\* call_gemini(sql_prompt) returns: lines 235-249, up to db_pool.acquire().
SynthesisReturn(r, I) ==
  /\ req[r].pc = "synthesis"
  /\ \E o \in I.synthesis :
       LET response_text == call_gemini(o)
           rec == Record(req[r], OracleEv("synthesis", o, response_text)) IN
       req' = [req EXCEPT ![r] =
                 IF IsGeminiError(response_text)
                   THEN raise_HTTPException(rec, 503, response_text)
                 ELSE IF IsClarify(response_text)
                   THEN return(rec, [clarification |-> ClarificationOf(response_text)])
                 ELSE [rec EXCEPT !.pc = "acquire", !.sql_query = ExtractSql(response_text)]]
  /\ UNCHANGED <<DB_SCHEMA_HASH, llm_cache, query_log, probe>>

\* async with db_pool.acquire() as conn (line 249): a connection is leased, or
\* the pool raises an error that is not a PostgresError (connection refused).
Acquire(r, I) ==
  /\ req[r].pc = "acquire"
  /\ \E got \in I.acquire :
       req' = [req EXCEPT ![r] =
                 IF got THEN [Record(@, Ev("db_acquire", TRUE)) EXCEPT !.pc = "execute", !.leased = 1]
                        ELSE raise_unhandled(Record(@, Ev("db_acquire", FALSE)))]
  /\ UNCHANGED <<DB_SCHEMA_HASH, llm_cache, query_log, probe>>

\* conn.prepare(sql_query); stmt.fetch() (lines 250-252, 255-257); the async
\* with block releases the connection on the way out, whatever the outcome.
ExecOutcomes(I) ==
  [kind : {"rows"}, rows : I.fetch, error : {<< >>}]
    \cup [kind : {"PostgresError"}, rows : {<< >>}, error : PostgresErrorTexts]
    \cup [kind : {"OtherError"}, rows : {<< >>}, error : {<< >>}]

\* Mutant: the connection goes back to the pool only when the fetch succeeded.
release_on_success_only(rec, x) == IF x.kind = "rows" THEN [rec EXCEPT !.leased = 0] ELSE rec

\* Leaving the async with block (line 249), normally or by an exception: the
\* pool's context manager releases the connection.
exit_acquire_block(rec, x) == [rec EXCEPT !.leased = 0]

Execute(r, I) ==
  /\ req[r].pc = "execute"
  /\ \E x \in ExecOutcomes(I) :
       LET rec == exit_acquire_block(Record(req[r], ExecEv(x)), x) IN
       req' = [req EXCEPT ![r] =
                 CASE x.kind = "rows" -> [rec EXCEPT !.pc = "log_ok", !.results = x.rows]
                   [] x.kind = "PostgresError" ->
                        [rec EXCEPT !.pc = "log_fail", !.error_message = x.error]
                   [] OTHER -> raise_unhandled(rec)]
  /\ UNCHANGED <<DB_SCHEMA_HASH, llm_cache, query_log, probe>>

\* log_query (lines 117-119): one INSERT into query_log.
log_query(question, sql, success, error) ==
  Append(query_log, [question |-> question, sql_query |-> sql,
                     success |-> success, error_message |-> error])

\* Mutant: an empty result is enriched like any other.
HasNoResultsNever(results) == FALSE

\* if not results, line 263
HasNoResults(results) == results = << >>

\* await log_query(last_question, sql_query, True) returns: lines 253-254, 263-271.
LogSuccess(r) ==
  /\ req[r].pc = "log_ok"
  /\ query_log' = log_query(last_question(r), req[r].sql_query, TRUE, << >>)
  /\ req' = [req EXCEPT ![r] =
               [Record(@, Ev("log_query", TRUE)) EXCEPT
                  !.pc = IF HasNoResults(req[r].results) THEN "no_results" ELSE "explain"]]
  /\ UNCHANGED <<DB_SCHEMA_HASH, llm_cache, probe>>

\* await log_query(last_question, sql_query, False, error_message) returns: 258-260.
LogFailure(r) ==
  /\ req[r].pc = "log_fail"
  /\ query_log' = log_query(last_question(r), req[r].sql_query, FALSE, req[r].error_message)
  /\ req' = [req EXCEPT ![r] = [Record(@, Ev("log_query", FALSE)) EXCEPT !.pc = "repair"]]
  /\ UNCHANGED <<DB_SCHEMA_HASH, llm_cache, probe>>

\* Mutant: the suggested fix is run in place of the failed query.
AfterRepairRetry(rec, error_message, suggested_fix) ==
  [rec EXCEPT !.pc = "acquire", !.sql_query = ExtractSql(suggested_fix)]

\* Mutant: a failed repair call is treated like a failed synthesis call.
AfterRepairChecked(rec, error_message, suggested_fix) ==
  IF IsGeminiError(suggested_fix)
    THEN raise_HTTPException(rec, 503, suggested_fix)
    ELSE raise_HTTPException(rec, 400, [error |-> error_message, suggested_fix |-> suggested_fix])

\* raise HTTPException(status_code=400, detail={...}), line 261: the suggested
\* fix goes back to the client and is not run.
AfterRepair(rec, error_message, suggested_fix) ==
  raise_HTTPException(rec, 400, [error |-> error_message, suggested_fix |-> suggested_fix])

\* call_gemini(fix_prompt) returns: lines 260-261.
RepairReturn(r, I) ==
  /\ req[r].pc = "repair"
  /\ \E o \in I.sentences :
       LET suggested_fix == call_gemini(o)
           rec == Record(req[r], OracleEv("repair", o, suggested_fix)) IN
       req' = [req EXCEPT ![r] = AfterRepair(rec, req[r].error_message, suggested_fix)]
  /\ UNCHANGED <<DB_SCHEMA_HASH, llm_cache, query_log, probe>>

\* Mutant: the no-results explanation is stored under the request's key.
NoResultsReturnCached(r, I) ==
  /\ req[r].pc = "no_results"
  /\ \E o \in I.sentences :
       LET explanation == call_gemini(o)
           rec == Record(req[r], OracleEv("no_results", o, explanation))
           body == [no_results_explanation |-> explanation]
           key == cache_key_hash(r) IN
       /\ req' = [req EXCEPT ![r] = return(rec, body)]
       /\ llm_cache' = [k \in DOMAIN llm_cache \cup {key} |->
                          IF k = key THEN body ELSE llm_cache[k]]
  /\ UNCHANGED <<DB_SCHEMA_HASH, query_log, probe>>

\* call_gemini(no_results_prompt) returns: lines 266-267.
NoResultsReturn(r, I) ==
  /\ req[r].pc = "no_results"
  /\ \E o \in I.sentences :
       LET explanation == call_gemini(o)
           rec == Record(req[r], OracleEv("no_results", o, explanation)) IN
       req' = [req EXCEPT ![r] = return(rec, [no_results_explanation |-> explanation])]
  /\ UNCHANGED <<DB_SCHEMA_HASH, llm_cache, query_log, probe>>

\* call_gemini(explain_prompt) returns: lines 271-274.
ExplainReturn(r, I) ==
  /\ req[r].pc = "explain"
  /\ \E o \in I.sentences :
       req' = [req EXCEPT ![r] =
                 [Record(@, OracleEv("explain", o, call_gemini(o))) EXCEPT
                    !.pc = "viz", !.explanation = call_gemini(o)]]
  /\ UNCHANGED <<DB_SCHEMA_HASH, llm_cache, query_log, probe>>

\* call_gemini(viz_prompt) returns: lines 274-282, up to set_to_cache.
VizReturn(r, I) ==
  /\ req[r].pc = "viz"
  /\ \E o \in I.viz :
       req' = [req EXCEPT ![r] =
                 [Record(@, OracleEv("viz", o, call_gemini(o))) EXCEPT
                    !.pc = "cache_set", !.chart_spec = ChartSpecOf(call_gemini(o))]]
  /\ UNCHANGED <<DB_SCHEMA_HASH, llm_cache, query_log, probe>>

\* final_response, line 280
final_response(r) ==
  [ question |-> last_question(r), sql_query |-> req[r].sql_query,
    explanation |-> req[r].explanation, result |-> req[r].results,
    chart_spec |-> req[r].chart_spec ]

\* await set_to_cache(cache_key_hash, final_response); return: lines 282-283.
CacheSet(r) ==
  /\ req[r].pc = "cache_set"
  /\ IF json_dumps_raises(final_response(r))
       THEN /\ req' = [req EXCEPT ![r] = raise_unhandled(@)]
            /\ UNCHANGED llm_cache
       ELSE /\ llm_cache' = set_to_cache(cache_key_hash(r), final_response(r))
            /\ req' = [req EXCEPT ![r] = return(Record(@, Ev("cache_set", TRUE)), final_response(r))]
  /\ UNCHANGED <<DB_SCHEMA_HASH, query_log, probe>>

\* One step of request r with the environment's answers drawn from I.
Step(r, I) ==
  \/ Receive(r, I)
  \/ RelevanceReturn(r, I)
  \/ CacheGet(r)
  \/ SynthesisReturn(r, I)
  \/ Acquire(r, I)
  \/ Execute(r, I)
  \/ LogSuccess(r)
  \/ LogFailure(r)
  \/ RepairReturn(r, I)
  \/ NoResultsReturn(r, I)
  \/ ExplainReturn(r, I)
  \/ VizReturn(r, I)
  \/ CacheSet(r)

\* Concurrent requests.
Next == \E r \in Reqs : Step(r, Concurrent)

Spec == Init /\ [][Next]_vars

\* Concurrent requests for the same conversation.
NextRace == \E r \in Reqs : Step(r, Race)

SpecRace == Init /\ [][NextRace]_vars

\* One request, with the wide range of inputs and answers.
NextOne == Step(1, Wide)

SpecOne == Init /\ [][NextOne]_vars

\* Every call a request waits for returns: the steps of request r after its
\* arrival.  Each one is the return of the Oracle, database or store call the
\* request is suspended on.
CallReturns(r, I) ==
  \/ RelevanceReturn(r, I)
  \/ CacheGet(r)
  \/ SynthesisReturn(r, I)
  \/ Acquire(r, I)
  \/ Execute(r, I)
  \/ LogSuccess(r)
  \/ LogFailure(r)
  \/ RepairReturn(r, I)
  \/ NoResultsReturn(r, I)
  \/ ExplainReturn(r, I)
  \/ VizReturn(r, I)
  \/ CacheSet(r)

\* One request, under the assumption that every call eventually returns (with
\* a value or an error).
FairSpecOne == Init /\ [][NextOne]_vars /\ WF_vars(CallReturns(1, Wide))

(* ------------------- the cache key as a pure function ------------------ *)
\* Conversations that differ in one role, in one content, in the number of
\* turns and in their order; one whose content holds quotes and braces that
\* spell the end of a turn and the start of another; one whose content is the
\* JSON text of a dict where another has the dict.
TurnA == Turn("user", Str(<<"a">>))
TurnB == Turn("user", Str(<<"b">>))
KeyHistories ==
  { << TurnA >>,
    << Turn("assistant", Str(<<"a">>)) >>,
    << TurnB >>,
    << TurnA, TurnB >>,
    << TurnB, TurnA >>,
    << Turn("user", Str(<<"a", "\"", "}", ",", " ", "{", "\"", "r", "o", "l", "e", "\"", ":", " ", "\"", "u", "s", "e", "r", "\"", ",", " ", "\"", "c", "o", "n", "t", "e", "n", "t", "\"", ":", " ", "\"", "b">>)) >>,
    H_followup,
    << Turn("user", Str(Q1)),
       Turn("assistant", Str(<<"{", "\"", "c", "l", "a", "r", "i", "f", "i", "c", "a", "t", "i", "o", "n", "\"", ":", " ", "\"", "x", "?", "\"", "}">>)),
       Turn("user", Str(Q2)) >> }

NoKey == [pending |-> TRUE]

\* Two (conversation, schema hash) pairs are drawn ...
InitKey ==
  /\ DB_SCHEMA_HASH = SchemaHash1
  /\ llm_cache = << >>
  /\ query_log = << >>
  /\ req = [r \in Reqs |-> NewRequest]
  /\ probe \in [pc : {"drawn"}, h1 : KeyHistories, s1 : SchemaHashes,
                h2 : KeyHistories, s2 : SchemaHashes, k1 : {NoKey}, k2 : {NoKey}]

\* ... and lines 226-227 compute the key of each.
ComputeKeys ==
  /\ probe.pc = "drawn"
  /\ probe' = [probe EXCEPT !.pc = "computed",
                            !.k1 = cache_key(probe.h1, probe.s1),
                            !.k2 = cache_key(probe.h2, probe.s2)]
  /\ UNCHANGED <<DB_SCHEMA_HASH, llm_cache, query_log, req>>

SpecKey == InitKey /\ [][ComputeKeys]_vars

(* ---------------------- GET /history (lines 285-291) ------------------- *)
\* Bounds: the rows the audit log holds and the seconds the clock advances.
MaxRecords == 3
MaxTime == 2

\* query_log.created_at, filled by DEFAULT CURRENT_TIMESTAMP (line 103) to the
\* second; the column is kept beside the rows: created_at[i] belongs to
\* query_log[i], whose id is i (AUTOINCREMENT, line 102).
InitHistory ==
  /\ DB_SCHEMA_HASH = SchemaHash1
  /\ llm_cache = << >>
  /\ query_log = << >>
  /\ req = [r \in Reqs |-> NewRequest]
  /\ probe = [pc |-> "history", now |-> 0, created_at |-> << >>, returned |-> << >>]

\* A second passes.
Tick ==
  /\ probe.now < MaxTime
  /\ probe' = [probe EXCEPT !.now = @ + 1]
  /\ UNCHANGED <<DB_SCHEMA_HASH, llm_cache, query_log, req>>

\* A request appends its audit record (log_query, lines 117-119).
LogQueryInsert ==
  /\ Len(query_log) < MaxRecords
  /\ \E success \in BOOLEAN :
       query_log' = log_query(Q1, ExtractSql(SynSelect), success,
                              IF success THEN << >>
                              ELSE CHOOSE e \in PostgresErrorTexts : TRUE)
  /\ probe' = [probe EXCEPT !.created_at = Append(@, probe.now)]
  /\ UNCHANGED <<DB_SCHEMA_HASH, llm_cache, req>>

\* dict(row) of row i of query_log
HistoryRow(i) ==
  [ id |-> i, question |-> query_log[i].question, sql_query |-> query_log[i].sql_query,
    success |-> query_log[i].success, error_message |-> query_log[i].error_message,
    created_at |-> probe.created_at[i] ]

\* SELECT * FROM query_log ORDER BY created_at DESC (line 289): the rows in an
\* order in which created_at never increases; SQL leaves the order of rows
\* with equal created_at to the engine.
OrderedByCreatedAtDesc ==
  { p \in [1..Len(query_log) -> 1..Len(query_log)] :
      /\ \A i, j \in 1..Len(query_log) : i # j => p[i] # p[j]
      /\ \A i \in 1..(Len(query_log) - 1) :
           probe.created_at[p[i]] >= probe.created_at[p[i + 1]] }

\* GET /history: get_history, lines 285-291.
get_history ==
  /\ \E p \in OrderedByCreatedAtDesc :
       probe' = [probe EXCEPT !.returned = [i \in 1..Len(query_log) |-> HistoryRow(p[i])]]
  /\ UNCHANGED <<DB_SCHEMA_HASH, llm_cache, query_log, req>>

NextHistory == Tick \/ LogQueryInsert \/ get_history

SpecHistory == InitHistory /\ [][NextHistory]_vars

(* ------------- the conversation log of the synthesis prompt ------------ *)
\* Bound: the turns of a conversation handed to generate_sql_prompt.
MaxTurns == 3

\* str(n) of a non-negative int
RECURSIVE IntText(_)
IntText(n) ==
  LET digit == <<"0", "1", "2", "3", "4", "5", "6", "7", "8", "9">>[(n % 10) + 1] IN
  IF n < 10 THEN <<digit>> ELSE IntText(n \div 10) \o <<digit>>

\* json.dumps of a value of a row that came out of JSON: an int or a float
json_dumps_value(v) ==
  IF "int" \in DOMAIN v THEN IntText(v.int) ELSE IntText(v.float) \o <<".", "0">>

\* The columns of a row in their order
RowKeys(row) == SelectSeq(<<"count", "total">>, LAMBDA k : k \in DOMAIN row)

json_dumps_row(row) ==
  <<"{">> \o JoinComma([i \in 1..Len(RowKeys(row)) |->
                          json_dumps_str(Chars(RowKeys(row)[i])) \o <<":", " ">>
                            \o json_dumps_value(json_default_encoder(row[RowKeys(row)[i]]))])
         \o <<"}">>

\* json.dumps(turn.content['result'], default=json_default_encoder), line 147
json_dumps_rows(rows) ==
  <<"[">> \o JoinComma([i \in 1..Len(rows) |-> json_dumps_row(rows[i])]) \o <<"]">>

\* f"{turn.content}": a str as it is, a dict of one text by its repr
format_content(content) ==
  IF IsStr(content) THEN content.str
  ELSE LET k == CHOOSE k \in DOMAIN content.dict : TRUE IN
       <<"{", "'">> \o Chars(k) \o <<"'", ":", " ", "'">> \o content.dict[k] \o <<"'", "}">>

UserPrefix == <<"U", "s", "e", "r", ":", " ">>
AssistantResultPrefix ==
  <<"A", "s", "s", "i", "s", "t", "a", "n", "t", " ", "(", "R", "e", "s", "u", "l", "t", ")", ":", " ">>

\* Mutant: the comprehension runs over the whole history.
history_with_last(history) == history

\* history[:-1], line 147
history_but_last(history) == SubSeq(history, 1, Len(history) - 1)

\* The condition of the comprehension of line 147
IsRendered(turn) ==
  turn.role = "user" \/ (~IsStr(turn.content) /\ "result" \in DOMAIN turn.content.dict)

\* The element of the comprehension of line 147
RenderTurn(turn) ==
  IF turn.role = "user" THEN UserPrefix \o format_content(turn.content)
  ELSE AssistantResultPrefix \o json_dumps_rows(turn.content.dict.result)

\* The list handed to "\n".join, line 147
conversation_lines(history) ==
  LET turns == SelectSeq(history_but_last(history), IsRendered) IN
  [i \in 1..Len(turns) |-> RenderTurn(turns[i])]

RECURSIVE JoinNewline(_)
JoinNewline(items) ==
  IF items = << >> THEN << >>
  ELSE IF Len(items) = 1 THEN items[1]
  ELSE items[1] \o <<"\n">> \o JoinNewline(Tail(items))

\* conversation_log of generate_sql_prompt, line 147
conversation_log(history) == JoinNewline(conversation_lines(history))

\* The turns of the conversations: user questions, and the responses a client
\* stores as assistant turns (a result, a clarification, an off-topic notice,
\* a no-results explanation, a plain text).
ResultResponse(rows) ==
  [ question |-> Q1, sql_query |-> ExtractSql(SynSelect),
    explanation |-> CHOOSE t \in SentenceTexts : TRUE,
    result |-> RowsRoundTrip(rows), chart_spec |-> [chart_needed |-> FALSE] ]
PromptTurns ==
  { Turn("user", Str(Q1)), Turn("user", Str(Q2)),
    Turn("assistant", Dict(ResultResponse(RowsInt))),
    Turn("assistant", Dict(ResultResponse(RowsDecimal))),
    Turn("assistant", Dict([clarification |-> ClarifyingQuestion])),
    Turn("assistant", Dict([off_topic |-> ClarifyingQuestion])),
    Turn("assistant", Dict([no_results_explanation |-> ClarifyingQuestion])),
    Turn("assistant", Str(ClarifyingQuestion)) }
PromptHistories == UNION { [1..n -> PromptTurns] : n \in 1..MaxTurns }

NoLog == [pending |-> TRUE]

\* A conversation is drawn ...
InitPrompt ==
  /\ DB_SCHEMA_HASH = SchemaHash1
  /\ llm_cache = << >>
  /\ query_log = << >>
  /\ req = [r \in Reqs |-> NewRequest]
  /\ probe \in [pc : {"history_drawn"}, history : PromptHistories,
                lines : {NoLog}, conversation_log : {NoLog}]

\* ... and generate_sql_prompt renders its conversation log.
generate_sql_prompt ==
  /\ probe.pc = "history_drawn"
  /\ probe' = [probe EXCEPT !.pc = "rendered",
                            !.lines = conversation_lines(probe.history),
                            !.conversation_log = conversation_log(probe.history)]
  /\ UNCHANGED <<DB_SCHEMA_HASH, llm_cache, query_log, req>>

SpecPrompt == InitPrompt /\ [][generate_sql_prompt]_vars

(* ------------------ the Telegram bot (telegram_bot/bot.py) ------------- *)
\* Bound: the messages a chat sends.
MaxMessages == 3

\* What requests.post(API_URL, json=payload) and raise_for_status() do: a 2xx
\* response with its JSON body, an error status (HTTPError), or no response at
\* all (ConnectionError, Timeout: a RequestException that is no HTTPError).
ApiOutcomes ==
  [kind : {"ok"}, data : { [clarification |-> ClarifyingQuestion],
                           [off_topic |-> ClarifyingQuestion],
                           ResultResponse(RowsInt) }]
    \cup [kind : {"HTTPError"}, data : { [status_code |-> 400], [status_code |-> 503] }]
    \cup [kind : {"RequestException"}, data : { [status_code |-> 0] }]

\* process_and_reply, bot.py lines 42-83: the history of the chat when it
\* returns, for what the API call did.
process_and_reply(history, o) ==
  CASE o.kind = "ok" -> Append(history, [role |-> "assistant", content |-> o.data])
    [] o.kind = "HTTPError" ->
         IF history # << >> /\ history[Len(history)].role = "user"
           THEN SubSeq(history, 1, Len(history) - 1) ELSE history
    [] OTHER -> history

\* chat_histories[chat_id] of one chat, with what it was when the last message
\* arrived and what the API call of that message did.
InitBot ==
  /\ DB_SCHEMA_HASH = SchemaHash1
  /\ llm_cache = << >>
  /\ query_log = << >>
  /\ req = [r \in Reqs |-> NewRequest]
  /\ probe = [pc |-> "bot", chat_history |-> << >>, before |-> << >>,
              last |-> "none", messages |-> 0]

\* start_command and clear_command, bot.py lines 25-39
clear_command ==
  /\ probe.pc = "bot"
  /\ probe' = [probe EXCEPT !.chat_history = << >>, !.before = << >>, !.last = "none"]
  /\ UNCHANGED <<DB_SCHEMA_HASH, llm_cache, query_log, req>>

\* handle_text_message, bot.py lines 86-94, with the process_and_reply it awaits
handle_text_message ==
  /\ probe.pc = "bot"
  /\ probe.messages < MaxMessages
  /\ \E user_message \in {Q1, Q2} : \E o \in ApiOutcomes :
       probe' = [probe EXCEPT
                   !.before = probe.chat_history,
                   !.chat_history =
                      process_and_reply(
                        Append(probe.chat_history, [role |-> "user", content |-> user_message]), o),
                   !.last = o.kind,
                   !.messages = @ + 1]
  /\ UNCHANGED <<DB_SCHEMA_HASH, llm_cache, query_log, req>>

NextBot == clear_command \/ handle_text_message

SpecBot == InitBot /\ [][NextBot]_vars

(* ======================= properties of the pipeline ==================== *)
Done(r) == req[r].pc = "done"
Trace(r) == req[r].trace
Idx(r) == 1..Len(Trace(r))
OracleStages == {"relevance", "synthesis", "repair", "no_results", "explain", "viz"}

\* How many calls of the kinds K request r has made.
Calls(r, K) == Cardinality({i \in Idx(r) : Trace(r)[i].ev \in K})
\* The kinds of the Oracle calls of r, in the order they were made.
OracleCalls(r) == SelectSeq(Trace(r), LAMBDA e : e.ev \in OracleStages)
OracleKinds(r) == [i \in 1..Len(OracleCalls(r)) |-> OracleCalls(r)[i].ev]
LastEv(r) == Trace(r)[Len(Trace(r))]

\* The request ended by returning what the cache lookup found.
CacheHitPath(r) == Done(r) /\ Trace(r) # << >> /\ LastEv(r).ev = "cache_get"
\* The variants of the response, told by its shape.
IsOffTopicResult(r) == Done(r) /\ req[r].status = 200 /\ DOMAIN req[r].body = {"off_topic"}
IsClarification(r) == Done(r) /\ req[r].status = 200 /\ DOMAIN req[r].body = {"clarification"}
IsNoResults(r) ==
  Done(r) /\ req[r].status = 200 /\ DOMAIN req[r].body = {"no_results_explanation"}
SuccessFields == {"question", "sql_query", "explanation", "result", "chart_spec"}
IsSuccessPayload(b) == DOMAIN b = SuccessFields /\ b.result # << >>
IsErrorResult(r) ==
  Done(r) /\ req[r].status = 400 /\ Trace(r) # << >> /\ LastEv(r).ev = "repair"

\* C1: in every request the cache is read only after the relevance call has
\* been issued and answered, whether or not the cache holds the request's key.
C1_RelevanceBeforeCache ==
  \A r \in Reqs : \A i \in Idx(r) :
    Trace(r)[i].ev = "cache_get" => \E j \in 1..(i - 1) : Trace(r)[j].ev = "relevance"

\* A request whose key was in the cache read it after one relevance call.
C1_Witness ==
  \E r \in Reqs :
    /\ CacheHitPath(r)
    /\ LastEv(r).ok
    /\ Trace(r)[1].ev = "relevance"

\* C2 as stated: a cache-hit request makes no Oracle call and no database
\* execution, and among the requests that pass input validation only
\* cache-hit requests do so.
C2_Original ==
  \A r \in Reqs : Done(r) /\ Trace(r) # << >> =>
    (CacheHitPath(r) <=> (Calls(r, OracleStages) = 0 /\ Calls(r, {"db_execute"}) = 0))

\* C2 amended: a cache-hit request makes exactly one Oracle call, the relevance
\* call, and no database execution; among the requests that reach the cache
\* lookup it is the only one that makes no further Oracle call; and a request
\* finds its key in the cache exactly when it ends on the cache-hit path.
C2_CacheHitCalls ==
  \A r \in Reqs : Done(r) =>
    /\ CacheHitPath(r) =>
         /\ OracleKinds(r) = <<"relevance">>
         /\ Calls(r, {"db_acquire", "db_execute", "log_query", "cache_set"}) = 0
    /\ \A i \in Idx(r) : Trace(r)[i].ev = "cache_get" =>
         /\ Trace(r)[i].ok <=> CacheHitPath(r)
         /\ CacheHitPath(r) <=> Calls(r, OracleStages \ {"relevance"}) = 0

C2_Witness ==
  \E r, q \in Reqs :
    /\ CacheHitPath(r) /\ IsSuccessPayload(req[r].body)
    /\ Done(q) /\ Calls(q, {"cache_get"}) = 1 /\ ~CacheHitPath(q)

\* What the client receives for a response: its JSON encoding, in which a
\* Decimal is a number like any other.
Wire(b) == IF "result" \in DOMAIN b THEN StoredForm(b) ELSE b
SameResponse(r1, r2) ==
  /\ req[r1].status = req[r2].status
  /\ DOMAIN req[r1].body = DOMAIN req[r2].body
  /\ Wire(req[r1].body) = Wire(req[r2].body)
\* r2 replays the conversation of r1, which had been answered when r2 arrived.
Replays(r2, r1) == r1 \in req[r2].after /\ req[r1].history = req[r2].history
Wrote(r) == Calls(r, {"cache_set"}) = 1

\* C3 as stated, read in its favour (the first request completed with a
\* result, and every Oracle call of the later request is answered): every later
\* request with the same conversation returns the same response, whatever the
\* Oracle answers during the later request.
C3_Original ==
  \A r1, r2 \in Reqs :
    ( /\ Done(r2) /\ Replays(r2, r1)
      /\ req[r1].status = 200 /\ IsSuccessPayload(req[r1].body)
      /\ \A i \in Idx(r2) : Trace(r2)[i].ok \/ Trace(r2)[i].ev \notin OracleStages )
    => SameResponse(r1, r2)

\* C3 amended: once a request for a conversation has completed with a
\* SuccessResult, every later request with the same conversation that passes
\* the relevance gate ends on the cache-hit path and returns the response
\* stored under the key, which is the JSON form of the response of a request
\* for that conversation that wrote it (the first one's, unless an overlapping
\* request for the same conversation overwrote the entry).
C3_ReplayAfterSuccess ==
  \A r1, r2 \in Reqs :
    ( /\ Done(r2) /\ Replays(r2, r1)
      /\ req[r1].status = 200 /\ IsSuccessPayload(req[r1].body)
      /\ Calls(r2, {"cache_get"}) = 1 )
    => /\ CacheHitPath(r2)
       /\ req[r2].status = 200
       /\ \E q \in Reqs \ {r2} :
            /\ req[q].history = req[r2].history
            /\ Done(q) /\ Wrote(q)
            /\ req[r2].body = Wire(req[q].body)

C3_Witness ==
  \E r1, r2 \in Reqs :
    /\ Done(r2) /\ Replays(r2, r1) /\ Wrote(r1)
    /\ CacheHitPath(r2)
    /\ req[r2].body = Wire(req[r1].body)
    /\ req[r2].body # req[r1].body

\* C4: when the answer of the relevance call, trimmed and upper-cased,
\* contains NO, the request returns OffTopic and has made no other call: no
\* cache read or write, no synthesis call, no execution, no audit append.
C4_OffTopicStopsRequest ==
  \A r \in Reqs :
    ( /\ Trace(r) # << >>
      /\ Trace(r)[1].ev = "relevance" /\ Trace(r)[1].ok
      /\ Contains(StrUpper(Strip(Trace(r)[1].text)), NO) )
    => IsOffTopicResult(r) /\ Len(Trace(r)) = 1

\* An OffTopic request whose answer was lower-case and padded, while the
\* cache held an entry.
C4_Witness ==
  \E r \in Reqs :
    /\ IsOffTopicResult(r)
    /\ ~Contains(Trace(r)[1].text, NO)
    /\ llm_cache # << >>

\* The step in which the synthesis call of r returns a text that decodes to Clarify.
ClarifyAnswered(r) ==
  /\ req[r].pc = "synthesis"
  /\ Len(req'[r].trace) = Len(req[r].trace) + 1
  /\ LET e == req'[r].trace[Len(req'[r].trace)] IN
       e.ev = "synthesis" /\ e.ok /\ StartsWith(StrUpper(Strip(e.text)), CLARIFY)

\* C5: when the synthesis answer decodes to Clarify the request returns
\* Clarification in that step, having made no database execution, audit append
\* or cache write, and the step leaves the cache and the audit log as they were.
C5_ClarifyFrame ==
  [][\A r \in Reqs : ClarifyAnswered(r) =>
       /\ req'[r].pc = "done" /\ req'[r].status = 200
       /\ DOMAIN req'[r].body = {"clarification"}
       /\ \A i \in 1..Len(req'[r].trace) :
            req'[r].trace[i].ev \notin {"db_acquire", "db_execute", "log_query", "cache_set"}
       /\ llm_cache' = llm_cache
       /\ query_log' = query_log]_vars

\* A Clarification returned while the audit log and the cache were not empty.
C5_Witness ==
  \E r \in Reqs : IsClarification(r) /\ query_log # << >> /\ llm_cache # << >>

\* C6: every entry of the cache is a SuccessResult payload (or a
\* NoResultsExplanation payload): none is an OffTopic, Clarification,
\* ErrorResult or Oracle-unavailable outcome.
C6_CacheHoldsSuccessOnly ==
  \A k \in DOMAIN llm_cache :
    \/ DOMAIN llm_cache[k] = SuccessFields
    \/ DOMAIN llm_cache[k] = {"no_results_explanation"}

\* The cache holds an entry and requests have ended in the other outcomes.
C6_Witness ==
  /\ llm_cache # << >>
  /\ \E r \in Reqs : Done(r) /\ Trace(r) # << >> /\ DOMAIN req[r].body # SuccessFields

ExecutedEmpty(r) ==
  \E i \in Idx(r) : Trace(r)[i].ev = "db_execute" /\ Trace(r)[i].ok /\ Trace(r)[i].n = 0

\* C7: when the executor succeeds with zero rows the request makes no repair
\* call and does not end in ErrorResult; it appends one audit record with
\* success = true, makes exactly one no-results Oracle call and returns
\* NoResultsExplanation.
C7_ZeroRowsExplained ==
  \A r \in Reqs : ExecutedEmpty(r) =>
    /\ Calls(r, {"repair"}) = 0
    /\ ~IsErrorResult(r)
    /\ \A i \in Idx(r) : Trace(r)[i].ev = "log_query" =>
         /\ Trace(r)[i].ok
         /\ \E j \in 1..Len(query_log) :
              query_log[j].question = last_question(r) /\ query_log[j].success
    /\ Done(r) =>
         /\ IsNoResults(r)
         /\ Calls(r, {"log_query"}) = 1
         /\ Calls(r, {"no_results"}) = 1
         /\ Calls(r, {"explain", "viz", "cache_set"}) = 0

\* A NoResultsExplanation, also one whose no-results call failed.
C7_Witness ==
  \E r \in Reqs : ExecutedEmpty(r) /\ IsNoResults(r) /\ LastEv(r).ev = "no_results" /\ ~LastEv(r).ok

\* C8: a request invokes the executor at most once and makes at most one
\* repair call; after a failed execution it executes nothing more.
C8_NoRetry ==
  \A r \in Reqs :
    /\ Calls(r, {"db_execute"}) <= 1
    /\ Calls(r, {"repair"}) <= 1
    /\ \A i \in Idx(r) : Trace(r)[i].ev = "db_execute" /\ ~Trace(r)[i].ok =>
         \A j \in (i + 1)..Len(Trace(r)) : Trace(r)[j].ev \notin {"db_acquire", "db_execute"}

C8_Witness ==
  \E r \in Reqs :
    IsErrorResult(r) /\ Calls(r, {"db_execute"}) = 1 /\ Calls(r, {"repair"}) = 1

\* C9 as stated: a request that ends in ErrorResult makes at most two Oracle
\* calls in total.
C9_Original ==
  \A r \in Reqs : IsErrorResult(r) => Calls(r, OracleStages) <= 2

\* C9 amended: a request that ends in ErrorResult makes three Oracle calls in
\* total: the relevance call, the synthesis call and the repair call.
C9_ErrorResultOracleCalls ==
  \A r \in Reqs : IsErrorResult(r) => OracleKinds(r) = <<"relevance", "synthesis", "repair">>

C9_Witness == \E r \in Reqs : IsErrorResult(r) /\ Calls(r, OracleStages) = 3

\* C10: a request appends exactly one audit record if and only if it reached
\* the execution stage, with success = true when the executor succeeded and
\* success = false when it failed, and never more than one.
C10_Original ==
  \A r \in Reqs : Done(r) =>
    /\ Calls(r, {"log_query"}) <= 1
    /\ Calls(r, {"log_query"}) = 1 <=> Calls(r, {"db_execute"}) >= 1
    /\ \A i, j \in Idx(r) :
         Trace(r)[i].ev = "db_execute" /\ Trace(r)[j].ev = "log_query" =>
           (Trace(r)[j].ok <=> Trace(r)[i].ok)

FailedCall(r, i) == Trace(r)[i].ev \in {"relevance", "synthesis"} /\ ~Trace(r)[i].ok

\* C11: when the Oracle call of the relevance stage or of the synthesis stage
\* fails, the request ends there with HTTP 503 carrying the error text: the
\* call is not repeated, and the request executes nothing, appends no audit
\* record and writes nothing to the cache.
C11_OracleFailureIsFatal ==
  \A r \in Reqs : \A i \in Idx(r) : FailedCall(r, i) =>
    /\ i = Len(Trace(r))
    /\ Done(r) /\ req[r].status = 503
    /\ req[r].body.detail = Trace(r)[i].text
    /\ Calls(r, {Trace(r)[i].ev}) = 1
    /\ Calls(r, {"db_acquire", "db_execute", "log_query", "cache_set"}) = 0
    /\ query_log = << >> /\ llm_cache = << >>

\* A request ended 503 by a synthesis answer the safety filter blocked.
C11_Witness ==
  \E r \in Reqs :
    /\ Done(r) /\ req[r].status = 503
    /\ LastEv(r).ev = "synthesis" /\ LastEv(r).exc = "ValueError"
    /\ Calls(r, {"relevance"}) = 1


Received(r) == req[r].pc # "idle"
LastTurn(r) == req[r].history[Len(req[r].history)]
\* The request is the one the interface asks for: it ends with a user turn.
UserAsks(r) == req[r].history # << >> /\ LastTurn(r).role = "user"

ExecutedRows(r) ==
  \E i \in Idx(r) : Trace(r)[i].ev = "db_execute" /\ Trace(r)[i].ok /\ Trace(r)[i].n >= 1
\* The summary call failed, or the visualization call failed or returned a
\* text that is not JSON.
EnrichmentFailed(r) ==
  \E i \in Idx(r) :
    \/ Trace(r)[i].ev \in {"explain", "viz"} /\ ~Trace(r)[i].ok
    \/ Trace(r)[i].ev = "viz" /\ json_loads_raises(Strip(Trace(r)[i].text))

\* C12 as stated: a request of a user whose execution returned at least one row and
\* whose summary or visualization call failed still ends with HTTP 200 and a
\* SuccessResult carrying the executed SQL and the rows, and the cache holds
\* that result under the request's key.
C12_Original ==
  \A r \in Reqs : Done(r) /\ UserAsks(r) /\ ExecutedRows(r) /\ EnrichmentFailed(r) =>
    /\ req[r].status = 200
    /\ IsSuccessPayload(req[r].body)
    /\ \E j \in 1..Len(query_log) : query_log[j].sql_query = req[r].body.sql_query
    /\ cache_key_hash(r) \in DOMAIN llm_cache
    /\ llm_cache[cache_key_hash(r)] = Wire(req[r].body)

\* {"chart_needed": <bool>, "chart_type"?: bar | line | pie, ...}
IsChartSpec(cs) ==
  /\ "chart_needed" \in DOMAIN cs
  /\ cs.chart_needed \in BOOLEAN
  /\ "chart_type" \in DOMAIN cs => cs.chart_type \in {"bar", "line", "pie"}
IsNoChart(cs) == DOMAIN cs = {"chart_needed"} /\ cs.chart_needed = FALSE

\* C13 as stated: in a SuccessResult the summary is not the Oracle's error text
\* when the summary call failed, the chart spec is {chart_needed: false} or
\* matches ChartSpec, and a visualization answer that is not JSON or is JSON of
\* another shape gives {chart_needed: false}.
C13_Original ==
  \A r \in Reqs : Done(r) /\ UserAsks(r) /\ req[r].status = 200 /\ Wrote(r) =>
    /\ \A i \in Idx(r) : Trace(r)[i].ev = "explain" /\ ~Trace(r)[i].ok =>
         /\ req[r].body.explanation # Trace(r)[i].text
         /\ ~IsGeminiError(req[r].body.explanation)
    /\ IsNoChart(req[r].body.chart_spec) \/ IsChartSpec(req[r].body.chart_spec)
    /\ \A i \in Idx(r) : Trace(r)[i].ev = "viz" =>
         (   \/ ~Trace(r)[i].ok
             \/ json_loads_raises(Strip(Trace(r)[i].text))
             \/ ~IsChartSpec(json_loads(Strip(Trace(r)[i].text)))
          => IsNoChart(req[r].body.chart_spec) )

\* C14: a request whose last turn has structured content is rejected with
\* HTTP 400 "Invalid question format." as it is received: it makes no Oracle
\* call, does not read or write the cache, executes nothing and appends no
\* audit record.
C14_StructuredQuestionRejected ==
  \A r \in Reqs :
    Received(r) /\ req[r].history # << >> /\ "dict" \in DOMAIN LastTurn(r).content =>
    /\ Done(r) /\ req[r].status = 400
    /\ req[r].body.detail = "Invalid question format."
    /\ Trace(r) = << >>
    /\ llm_cache = << >> /\ query_log = << >>

C14_Witness ==
  \E r \in Reqs :
    /\ Done(r) /\ req[r].status = 400 /\ Trace(r) = << >>
    /\ Len(req[r].history) = 1 /\ "dict" \in DOMAIN LastTurn(r).content

\* C15 as stated, for the histories that are not empty: a request goes on to
\* its first Oracle call only if its history ends with a user turn whose content
\* is text; any other request is rejected with HTTP 400 and makes no call.
C15_Original ==
  \A r \in Reqs : Received(r) /\ req[r].history # << >> =>
    \/ /\ LastTurn(r).role = "user" /\ "str" \in DOMAIN LastTurn(r).content
    \/ Done(r) /\ req[r].status = 400 /\ Trace(r) = << >>

\* The variants of PipelineResult and the two error outcomes a response matches.
Outcomes(r) ==
  {v \in {"OffTopic", "Clarification", "NoResultsExplanation", "ErrorResult",
          "SuccessResult", "InputValidationError", "OracleUnavailable"} :
     CASE v = "OffTopic" -> IsOffTopicResult(r)
       [] v = "Clarification" -> IsClarification(r)
       [] v = "NoResultsExplanation" -> IsNoResults(r)
       [] v = "ErrorResult" -> IsErrorResult(r)
       [] v = "SuccessResult" -> req[r].status = 200 /\ DOMAIN req[r].body = SuccessFields
       [] v = "InputValidationError" -> req[r].status = 400 /\ Trace(r) = << >>
       [] v = "OracleUnavailable" -> req[r].status = 503}

\* C16 as stated: a request that has ended has returned one response, and the
\* response is exactly one of OffTopic, Clarification, NoResultsExplanation,
\* ErrorResult, SuccessResult, InputValidationError and OracleUnavailable.
C16_Original ==
  \A r \in Reqs : Done(r) => Cardinality(Outcomes(r)) = 1

ExecutionFailed(r) ==
  \E i \in Idx(r) : Trace(r)[i].ev \in {"db_acquire", "db_execute"} /\ ~Trace(r)[i].ok

\* C17 as stated, for requests with a non-empty history: the status is 400 when
\* the last turn is rejected or the execution failed (a rejected query or any
\* other database failure), 503 when the relevance or the synthesis call
\* failed, and 200 otherwise.
C17_Original ==
  \A r \in Reqs : Done(r) /\ req[r].history # << >> =>
    req[r].status =
      IF Trace(r) = << >> \/ ExecutionFailed(r) THEN 400
      ELSE IF FailedCall(r, Len(Trace(r))) THEN 503
      ELSE 200

\* C18: a request holds a connection only between db_pool.acquire() and the
\* end of the execution, whatever its outcome: never during an Oracle call, a
\* cache access or an audit append, and never once it has ended.
C18_ConnectionReleased ==
  \A r \in Reqs :
    /\ req[r].leased \in {0, 1}
    /\ req[r].leased = 1 <=> req[r].pc = "execute"
    /\ Done(r) => req[r].leased = 0

\* Requests past the execution stage by each of its exits: an error that is
\* not a query rejection, and a rejected query now awaiting the repair call.
C18_Witness ==
  \E r \in Reqs :
    /\ req[r].leased = 0
    /\ Calls(r, {"db_acquire"}) = 1
    /\ \/ Done(r) /\ req[r].status = 500 /\ LastEv(r).ev = "db_execute"
       \/ req[r].pc = "repair"


\* C19: the cache key is a function of the conversation and the schema hash
\* that tells them apart: two computations give the same key exactly when the
\* conversations have the same turns (roles, contents, number, order) and the
\* schema hashes are the same.
C19_KeyTellsInputsApart ==
  probe.pc = "computed" =>
    (probe.k1 = probe.k2 <=> (probe.h1 = probe.h2 /\ probe.s1 = probe.s2))

\* The keys of two conversations with the same turns in another order.
C19_Witness ==
  /\ probe.pc = "computed"
  /\ probe.h1 = << TurnA, TurnB >> /\ probe.h2 = << TurnB, TurnA >>
  /\ probe.s1 = probe.s2
  /\ probe.k1 # probe.k2


\* Two requests with the same cache key that ran concurrently (neither had
\* been answered when the other arrived) and both wrote the key.
RacingWriters(r1, r2) ==
  /\ r1 # r2
  /\ Done(r1) /\ Done(r2)
  /\ r1 \notin req[r2].after /\ r2 \notin req[r1].after
  /\ req[r1].history = req[r2].history
  /\ Wrote(r1) /\ Wrote(r2)

\* C20 as stated: two concurrent requests with the same key that both miss the
\* cache and both write it store the same value.
C20_Original ==
  \A r1, r2 \in Reqs : RacingWriters(r1, r2) => Wire(req[r1].body) = Wire(req[r2].body)

\* The cache write of request r: the key holds the JSON form of r's response
\* whatever it held before, and no other key changes.
WriteLands(r) ==
  LET key == cache_key_hash(r) IN
    /\ DOMAIN llm_cache' = DOMAIN llm_cache \cup {key}
    /\ llm_cache'[key] = Wire(req'[r].body)
    /\ \A k \in DOMAIN llm_cache \ {key} : llm_cache'[k] = llm_cache[k]

\* C20 amended: two concurrent requests with the same key that both miss the
\* cache both do the Oracle and database work and both write the key; each write
\* replaces the value under the key by the writer's own response, so the cache
\* is left with the response of the write that lands last; the two writes store
\* the same value when the Oracle and the database gave both requests the same
\* answers.
C20_LastWriteWins ==
  /\ [](\A r1, r2 \in Reqs : RacingWriters(r1, r2) =>
          /\ OracleKinds(r1) = <<"relevance", "synthesis", "explain", "viz">>
          /\ Calls(r1, {"db_execute"}) = 1
          /\ ( /\ OracleCalls(r1) = OracleCalls(r2)
               /\ req[r1].body.result = req[r2].body.result )
             => req[r1].body = req[r2].body)
  /\ [][\A r \in Reqs :
          req[r].pc = "cache_set" /\ req'[r].pc = "done" /\ req'[r].status = 200
            => WriteLands(r)]_vars

\* Two racing writers whose responses differ, the cache holding the response
\* of one of them.
C20_Witness ==
  \E r1, r2 \in Reqs :
    /\ RacingWriters(r1, r2)
    /\ req[r1].body.result # req[r2].body.result
    /\ llm_cache[cache_key_hash(r1)] = Wire(req[r2].body)


\* C21 as stated: the list GET /history returns holds the audit records newest
\* first: of any two records, the one appended later (the greater id) comes
\* earlier in the list, also when both were appended within the same second.
C21_Original ==
  probe.pc = "history" =>
    \A i, j \in 1..Len(probe.returned) :
      i < j => probe.returned[i].id > probe.returned[j].id


\* The conversation of r2 is the conversation of r1, then the response r1 got
\* as the assistant's turn, then a new user turn.
FollowsUp(r2, r1) ==
  LET h1 == req[r1].history
      h2 == req[r2].history
  IN  /\ Len(h2) = Len(h1) + 2
      /\ SubSeq(h2, 1, Len(h1)) = h1
      /\ h2[Len(h1) + 1].role = "assistant"
      /\ "dict" \in DOMAIN h2[Len(h1) + 1].content
      /\ h2[Len(h1) + 1].content.dict = req[r1].body
      /\ h2[Len(h2)].role = "user"
      /\ "str" \in DOMAIN h2[Len(h2)].content

\* C22: after a request with conversation H returned a clarification, a later
\* request whose conversation is H, the clarification turn and a new user turn
\* is never answered from a cache entry of the H request: the H request wrote
\* no entry, the two cache keys differ, a cache hit of the later request comes
\* from a request with the later conversation, and when its lookup misses it
\* runs the synthesis call itself.
C22_FollowUpIsFresh ==
  \A r1 \in Reqs : \A r2 \in Reqs :
    (IsClarification(r1) /\ r1 \in req[r2].after /\ req[r2].history # << >>
       /\ FollowsUp(r2, r1)) =>
      /\ cache_key_hash(r2) # cache_key_hash(r1)
      /\ Calls(r1, {"cache_set"}) = 0
      /\ cache_key_hash(r1) \notin DOMAIN llm_cache
           \/ \E q \in Reqs \ {r1} : Wrote(q) /\ req[q].history = req[r1].history
      /\ CacheHitPath(r2) =>
           \E q \in Reqs \ {r1, r2} : Wrote(q) /\ req[q].history = req[r2].history
      /\ (Done(r2) /\ Calls(r2, {"cache_get"}) = 1 /\ ~CacheHitPath(r2)) =>
           Calls(r2, {"synthesis"}) = 1

C22_Witness ==
  \E r1 \in Reqs : \E r2 \in Reqs :
    /\ IsClarification(r1) /\ r1 \in req[r2].after /\ FollowsUp(r2, r1)
    /\ Done(r2) /\ Calls(r2, {"synthesis"}) = 1 /\ Wrote(r2)
    /\ cache_key_hash(r2) \in DOMAIN llm_cache


\* C23 as stated: for every synthesis answer that, trimmed and case-folded,
\* begins with CLARIFY:, the clarification question returned is the text that
\* follows the sentinel, trimmed; also when whitespace precedes the sentinel.
C23_Original ==
  \A r \in Reqs : \A i \in Idx(r) :
    LET e == Trace(r)[i] IN
    (Done(r) /\ UserAsks(r) /\ e.ev = "synthesis" /\ e.ok
       /\ StartsWith(StrUpper(Strip(e.text)), CLARIFY)) =>
      /\ req[r].status = 200
      /\ DOMAIN req[r].body = {"clarification"}
      /\ req[r].body.clarification = Strip(SliceFrom(Strip(e.text), Len(CLARIFY)))


\* The candidate SQL of a synthesis answer as C24 describes it: the content of
\* the fenced block when there is one, otherwise the whole text.
CandidateSql(t) == IF HasFence(t) THEN Strip(FenceGroup1(t)) ELSE t
\* The candidates without one trailing ";": the ";" may be followed by
\* whitespace, which is kept or dropped.
WithoutOneTerminator(c) ==
  LET b == RStrip(c) IN
  IF b # << >> /\ b[Len(b)] = ";"
    THEN { SubSeq(b, 1, Len(b) - 1), SubSeq(b, 1, Len(b) - 1) \o SliceFrom(c, Len(b)) }
    ELSE { c }

\* C24 as stated: the SQL handed to the executor is the candidate without
\* exactly one trailing ";": a candidate ending in ";" loses it (also when
\* whitespace follows it in unfenced text), one ending in ";;" keeps one ";",
\* one without a trailing ";" is unchanged.
C24_Original ==
  \A r \in Reqs :
    (req[r].pc = "acquire" /\ UserAsks(r) /\ LastEv(r).ev = "synthesis") =>
      req[r].sql_query \in WithoutOneTerminator(CandidateSql(LastEv(r).text))


\* The non-final turns C25 says are rendered, in the order of the history:
\* user turns, and assistant turns whose content has a result field.
RenderedIndices(history) ==
  SelectSeq([i \in 1..(Len(history) - 1) |-> i],
            LAMBDA i : \/ history[i].role = "user"
                       \/ /\ history[i].role = "assistant"
                          /\ "dict" \in DOMAIN history[i].content
                          /\ "result" \in DOMAIN history[i].content.dict)

\* C25: the conversation log of the synthesis prompt has one line per non-final
\* user turn (a User line with its content) and per non-final assistant turn
\* with a result field (an Assistant (Result) line with the rows), in the order
\* of the history; other assistant turns and the final turn are not rendered.
C25_ConversationLog ==
  probe.pc = "rendered" =>
    LET h == probe.history
        idx == RenderedIndices(h)
    IN  /\ Len(probe.lines) = Len(idx)
        /\ \A k \in 1..Len(idx) :
             IF h[idx[k]].role = "user"
               THEN probe.lines[k] = UserPrefix \o h[idx[k]].content.str
               ELSE probe.lines[k] =
                      AssistantResultPrefix \o json_dumps_rows(h[idx[k]].content.dict.result)
        /\ probe.conversation_log = JoinNewline(probe.lines)

C25_Witness ==
  /\ probe.pc = "rendered"
  /\ Len(probe.history) = 3
  /\ probe.history[1].role = "assistant" /\ probe.history[2].role = "user"
  /\ probe.history[3].role = "user"
  /\ probe.lines = << AssistantResultPrefix \o <<"[", "{", "\"", "c", "o", "u", "n", "t", "\"", ":", " ", "4", "2", "}", "]">>,
                      UserPrefix \o Q2 >>


C27_CachedAfterAudited ==
  \A k \in DOMAIN llm_cache :
    /\ DOMAIN llm_cache[k] = SuccessFields
    /\ llm_cache[k].result # << >>
    /\ \E n \in 1..Len(query_log) :
         /\ query_log[n].success
         /\ query_log[n].question = llm_cache[k].question
         /\ query_log[n].sql_query = llm_cache[k].sql_query

\* A result was cached by a request that has returned, and the audit log also
\* holds the record of a rejected query.
C27_Witness ==
  /\ \E r \in Reqs : Done(r) /\ Wrote(r) /\ cache_key_hash(r) \in DOMAIN llm_cache
  /\ \E n \in 1..Len(query_log) : ~query_log[n].success
  /\ \E n \in 1..Len(query_log) : query_log[n].success


\* The audit records of the question of r
AuditRecordsOf(r) ==
  { n \in 1..Len(query_log) : query_log[n].question = LastTurn(r).content.str }

C29_Terminates ==
  /\ [](\A r \in Reqs :
          /\ Calls(r, OracleStages) <= 4
          /\ Calls(r, {"db_execute"}) <= 1
          /\ \A i, j \in Idx(r) : Trace(r)[i].ev = Trace(r)[j].ev => i = j)
  /\ \A r \in Reqs : Received(r) ~> Done(r)

\* A request ended after four Oracle calls and one execution.
C29_Witness ==
  \E r \in Reqs :
    /\ Done(r) /\ req[r].status = 200
    /\ Calls(r, OracleStages) = 4
    /\ OracleKinds(r) = <<"relevance", "synthesis", "explain", "viz">>
    /\ Calls(r, {"db_execute"}) = 1


\* C30 as stated: after a message whose API call failed (an error status or a
\* connection failure) the stored history of the chat is what it was before
\* the user message was appended, so the history never holds two consecutive
\* user turns; after a successful call it ends with the assistant's turn.
C30_Original ==
  probe.pc = "bot" =>
    /\ probe.last \in {"HTTPError", "RequestException"} => probe.chat_history = probe.before
    /\ \A i \in 1..(Len(probe.chat_history) - 1) :
         ~(probe.chat_history[i].role = "user" /\ probe.chat_history[i + 1].role = "user")
    /\ probe.last = "ok" =>
         probe.chat_history[Len(probe.chat_history)].role = "assistant"


====
